---------------------------- MODULE Spec2Model ----------------------------
(***************************************************************************)
(* Model of internal/tailer/file.go: the tailed-file state machine         *)
(* (File: NewFile, Follow, doRotation, Read, checkForTruncate, sendLine,   *)
(* Close) and the filesystem watcher (LogWatcher: Events, Add, Remove,     *)
(* sendEvent, runTicks, runEvents, Close).                                 *)
(***************************************************************************)
EXTENDS Integers, Sequences, FiniteSets, TLC

(***************************************************************************)
(* Bounds of the model.                                                    *)
(***************************************************************************)
\* longest content of one inode, in bytes
MaxLen == 4
\* capacity of the read buffer b (4096 in the source, scaled down)
ChunkCap == 2
\* truncations the environment performs
MaxTrunc == 1
\* rotations (unlink + create) the environment performs
MaxRot == 1
\* goroutines calling the LogWatcher's methods
NCallers == 2
\* channels Events() hands out
MaxQueues == 2
\* calls of Add, Remove and Close made in all
MaxCalls == 2

(***************************************************************************)
(* Bytes and UTF-8, as unicode/utf8 computes them.                         *)
(***************************************************************************)
\* '\n', the rune that ends a line
NewLine == 10
\* utf8.RuneError, U+FFFD
RuneError == 65533

\* what one write of the environment appends: "a", "\n", and the two-byte
\* codepoint U+00E9 (0xC3 0xA9)
Atoms == { <<97>>, <<NewLine>>, <<195, 169>> }

IsCont(x) == x >= 128 /\ x <= 191

\* utf8.DecodeRune(b) for a non-empty b: the rune and its width; an invalid
\* or incomplete encoding decodes to (RuneError, 1)
DecodeRune(b) ==
  LET b0 == b[1]
      n  == Len(b)
      bad == [rune |-> RuneError, width |-> 1]
  IN  IF b0 < 128 THEN [rune |-> b0, width |-> 1]
      ELSE IF b0 >= 194 /\ b0 <= 223 THEN
             IF n >= 2 /\ IsCont(b[2])
             THEN [rune |-> (b0 % 32) * 64 + (b[2] % 64), width |-> 2]
             ELSE bad
      ELSE IF b0 >= 224 /\ b0 <= 239 THEN
             IF n >= 3 /\ IsCont(b[3])
                /\ b[2] >= (IF b0 = 224 THEN 160 ELSE 128)
                /\ b[2] <= (IF b0 = 237 THEN 159 ELSE 191)
             THEN [rune |-> (b0 % 16) * 4096 + (b[2] % 64) * 64 + (b[3] % 64),
                   width |-> 3]
             ELSE bad
      ELSE IF b0 >= 240 /\ b0 <= 244 THEN
             IF n >= 4 /\ IsCont(b[3]) /\ IsCont(b[4])
                /\ b[2] >= (IF b0 = 240 THEN 144 ELSE 128)
                /\ b[2] <= (IF b0 = 244 THEN 143 ELSE 191)
             THEN [rune |-> (b0 % 8) * 262144 + (b[2] % 64) * 4096
                            + (b[3] % 64) * 64 + (b[4] % 64),
                   width |-> 4]
             ELSE bad
      ELSE bad

\* the bytes bytes.Buffer.WriteRune(r) appends: utf8.EncodeRune
EncodeRune(r) ==
  IF r < 0 \/ r > 1114111 \/ (r >= 55296 /\ r <= 57343)
  THEN <<239, 191, 189>>
  ELSE IF r < 128 THEN <<r>>
  ELSE IF r < 2048 THEN <<192 + (r \div 64), 128 + (r % 64)>>
  ELSE IF r < 65536
       THEN <<224 + (r \div 4096), 128 + ((r \div 64) % 64), 128 + (r % 64)>>
  ELSE <<240 + (r \div 262144), 128 + ((r \div 4096) % 64),
         128 + ((r \div 64) % 64), 128 + (r % 64)>>

Min(a, b) == IF a < b THEN a ELSE b

(***************************************************************************)
(* State.                                                                  *)
(***************************************************************************)
VARIABLES
  \* the filesystem: content of every inode, and the inode now at the
  \* tailed path (0: no file at the path)
  inodes, pathIno,
  \* File: the inode f.file is open on, its read offset, f.partial, f.lock,
  \* and whether the descriptor is open
  fdIno, offset, partial, lock, fopen,
  \* the lines channel: every LogLine sent, tagged with the caller of
  \* sendLine ("read", "trunc", "close")
  lines,
  \* expvar counters logRotations, logTruncs
  logRotations, logTruncs,
  \* history: bytes returned by f.file.Read since the last seek or open,
  \* the environment's truncations and rotations so far, the offset at which
  \* NewFile positioned the descriptor and its seekToStart argument, the
  \* last operation taken, and what the last doRotation left when it
  \* swapped the descriptor
  readLog, envTruncs, envRots, openOff, seekToStart, lastOp, atSwap

fvars == <<inodes, pathIno, fdIno, offset, partial, lock, fopen, lines,
           logRotations, logTruncs, readLog, envTruncs, envRots, openOff,
           seekToStart, lastOp, atSwap>>

VARIABLES
  \* NewLogWatcher: w.watcher != nil, w.pollTicker != nil
  watcherOn, pollOn,
  \* len(w.events) (handle h is channel h + 1), and how many times each
  \* channel was closed
  events, chClosed,
  \* w.watched: a function from the registered paths to channels
  watched,
  \* w.eventsMu, w.watchedMu: [r: read locks held, w: the caller holding the
  \* write lock or 0, pend: the callers blocked in Lock()]
  eventsMu, watchedMu,
  \* close(w.stopTicks) calls, w.ticksDone and w.eventsDone closed, and
  \* w.closeOnce ("fresh", "running", "done")
  stopTicks, ticksDone, eventsDone, closeOnce,
  \* the fsnotify watcher: closed, and the paths it watches
  fsClosed, fsWatches,
  \* runEvents: where it is, the Event it dispatches, the channel it sends on
  pcE, evE, chE,
  \* runTicks: where it is, the entries of w.watched its range loop has still
  \* to visit, the entry it is sending
  pcT, todoT, curT,
  \* the calling goroutines: where each is, its arguments, what its last
  \* call returned, and the calls made so far
  pc, arg, ret, nCalls,
  \* a goroutine panicked: the process is gone
  panicked

wvars == <<watcherOn, pollOn, events, chClosed, watched, eventsMu, watchedMu,
           stopTicks, ticksDone, eventsDone, closeOnce, fsClosed, fsWatches,
           pcE, evE, chE, pcT, todoT, curT, pc, arg, ret, nCalls, panicked>>

VARIABLES
  \* the gate of sendLine and waitForLock, f.partialLock
  partialLock,
  \* the goroutine in Read ("read") and the goroutine in Close ("close"):
  \* the statement each is at
  pcG,
  \* Read: the bytes of the chunk b not yet decoded, and the rune in hand
  pendR, runeR,
  \* sendLine: the value of f.partial.String() each goroutine is sending
  held,
  \* history: the bytes of every rune the rune loop has handled so far
  fed

gvars == <<partialLock, pcG, pendR, runeR, held, fed>>

vars == <<fvars, wvars, gvars>>

(***************************************************************************)
(* File: the read pass.  A read pass is computed on a record               *)
(*   [ino, off, partial, lines, truncs, log]                               *)
(* against the contents of the inodes.                                     *)
(***************************************************************************)

\* sendLine: the buffer's content goes out as one LogLine, the buffer is reset
sendLine(st, by) ==
  [st EXCEPT !.lines = Append(@, [text |-> st.partial, by |-> by]),
             !.partial = <<>>]

\* the rune loop of Read over one chunk b, from index i (1-based)
RECURSIVE DecodeChunk(_, _, _)
DecodeChunk(st, b, i) ==
  IF i > Len(b) THEN st
  ELSE LET d == DecodeRune(SubSeq(b, i, Len(b)))
           st2 == IF d.rune # NewLine
                  THEN [st EXCEPT !.partial = @ \o EncodeRune(d.rune)]
                  ELSE sendLine(st, "read")
       IN  DecodeChunk(st2, b, i + d.width)

\* checkForTruncate as it would be without the flush of the partial line
checkForTruncateNoFlush(st, content) ==
  IF st.off = 0 \/ Len(content) >= st.off
  THEN <<FALSE, st>>
  ELSE <<TRUE, [st EXCEPT !.off = 0, !.truncs = @ + 1, !.log = <<>>]>>

\* checkForTruncate: <<truncated, state after>>
checkForTruncate(st, content) ==
  IF st.off = 0 \/ Len(content) >= st.off
  THEN <<FALSE, st>>
  ELSE LET flushed == IF Len(st.partial) > 0 THEN sendLine(st, "trunc") ELSE st
       IN  <<TRUE, [flushed EXCEPT !.off = 0, !.truncs = @ + 1, !.log = <<>>]>>

\* Read: chunks of ChunkCap bytes until end of file
RECURSIVE Read(_, _, _)
Read(st, content, totalBytes) ==
  LET b     == SubSeq(content, st.off + 1, Min(st.off + ChunkCap, Len(content)))
      n     == Len(b)
      eof   == n = 0
      total == totalBytes + n
      got   == [st EXCEPT !.off = @ + n, !.log = @ \o b]
      tr    == checkForTruncate(got, content)
  IN  IF eof /\ total = 0 /\ tr[1]
      THEN Read(tr[2], content, total)
      ELSE LET st2 == DecodeChunk(got, b, 1)
           IN  IF eof THEN st2 ELSE Read(st2, content, total)

FileState ==
  [ino |-> fdIno, off |-> offset, partial |-> partial, lines |-> lines,
   truncs |-> logTruncs, log |-> readLog]

\* doRotation as it would be without the rotation flush read
flushReadSkipped(st) == st

\* doRotation, its first half: the rotation flush read on the old descriptor
flushRead(st) == Read(st, inodes[st.ino], 0)

\* doRotation: the flush read, then f.file = open(f.Pathname), at offset 0
doRotation(st) ==
  [flushRead(st) EXCEPT !.ino = pathIno, !.off = 0, !.log = <<>>]

\* history: the File as doRotation(st) leaves it right before it swaps f.file
\* (nlines: the line records sent while f.file was the old descriptor)
Drained(st) ==
  LET d == flushRead(st)
  IN  [from |-> st.ino, off |-> d.off, log |-> d.log, partial |-> d.partial,
       nlines |-> Len(d.lines) - atSwap.base, base |-> Len(d.lines)]

\* Follow, with f.file.Stat() succeeding
Follow ==
  /\ fopen
  /\ UNCHANGED <<wvars, gvars>>
  /\ lastOp' = "Follow"
  /\ IF pathIno = 0
     THEN \* os.Stat(f.Pathname) fails: return nil
          UNCHANGED <<fdIno, offset, partial, lines, logRotations, logTruncs,
                      readLog, atSwap>>
     ELSE LET rotate == fdIno # pathIno
              st1 == IF rotate THEN doRotation(FileState) ELSE FileState
              st2 == IF ~lock THEN Read(st1, inodes[st1.ino], 0) ELSE st1
          IN  /\ fdIno' = st2.ino
              /\ offset' = st2.off
              /\ partial' = st2.partial
              /\ lines' = st2.lines
              /\ logTruncs' = st2.truncs
              /\ readLog' = st2.log
              /\ logRotations' = IF rotate THEN logRotations + 1 ELSE logRotations
              /\ atSwap' = IF rotate THEN Drained(FileState) ELSE atSwap
  /\ UNCHANGED <<inodes, pathIno, lock, fopen, envTruncs, envRots, openOff,
                 seekToStart>>

\* Follow when f.file.Stat() fails (lines 119-127): doRotation is called for
\* the failure, its flush read on the failed descriptor returns an error
\* with no bytes, and f.file is reopened on the path; then s1 is nil, so
\* os.SameFile(s1, s2) is false and lines 133-138 call doRotation again.
FollowStatErr ==
  /\ fopen
  /\ logRotations < MaxRot
  /\ UNCHANGED <<wvars, gvars>>
  /\ lastOp' = "FollowStatErr"
  /\ IF pathIno = 0
     THEN \* open(f.Pathname) fails after its retries: doRotation returns err
          /\ logRotations' = logRotations + 1
          /\ UNCHANGED <<fdIno, offset, partial, lines, logTruncs, readLog,
                         atSwap>>
     ELSE LET st0 == [FileState EXCEPT !.ino = pathIno, !.off = 0, !.log = <<>>]
              st1 == doRotation(st0)
              st2 == IF ~lock THEN Read(st1, inodes[st1.ino], 0) ELSE st1
          IN  /\ fdIno' = st2.ino
              /\ offset' = st2.off
              /\ partial' = st2.partial
              /\ lines' = st2.lines
              /\ logTruncs' = st2.truncs
              /\ readLog' = st2.log
              /\ logRotations' = logRotations + 2
              /\ atSwap' = Drained(st0)
  /\ UNCHANGED <<inodes, pathIno, lock, fopen, envTruncs, envRots, openOff,
                 seekToStart>>

\* the failures of checkForTruncate: f.file.Seek(0, io.SeekCurrent) (line
\* 243), f.file.Stat() (line 249), f.file.Seek(0, io.SeekStart) (line 266)
TruncFailures == {"offset", "stat", "seek"}

\* checkForTruncate with one of its calls failing: <<truncated, state after>>.
\* A failed seek to the start leaves the descriptor where it was, and
\* line 268 returns true with the error.
checkForTruncateErr(st, content, fail) ==
  IF fail \in {"offset", "stat"} THEN <<FALSE, st>>
  ELSE IF st.off = 0 \/ Len(content) >= st.off
  THEN <<FALSE, st>>
  ELSE LET flushed == IF Len(st.partial) > 0 THEN sendLine(st, "trunc") ELSE st
       IN  <<TRUE, [flushed EXCEPT !.truncs = @ + 1]>>

\* Read with that failure in the checkForTruncate of its first pass; the
\* calls of later passes succeed
ReadErr(st, content, fail) ==
  LET b   == SubSeq(content, st.off + 1, Min(st.off + ChunkCap, Len(content)))
      n   == Len(b)
      got == [st EXCEPT !.off = @ + n, !.log = @ \o b]
      tr  == checkForTruncateErr(got, content, fail)
  IN  IF n = 0 /\ tr[1]
      THEN Read(tr[2], content, 0)
      ELSE LET st2 == DecodeChunk(got, b, 1)
           IN  IF n = 0 THEN st2 ELSE Read(st2, content, n)

\* Follow of an unrotated file whose first read returns no bytes, with a
\* failure in the truncation detection that follows
FollowTruncErr(fail) ==
  /\ fopen
  /\ UNCHANGED <<wvars, gvars>>
  /\ pathIno = fdIno
  /\ ~lock
  /\ offset >= Len(inodes[fdIno])
  /\ fail = "seek" => offset > 0 /\ Len(inodes[fdIno]) < offset
  /\ lastOp' = fail
  /\ LET st2 == ReadErr(FileState, inodes[fdIno], fail)
     IN  /\ offset' = st2.off
         /\ partial' = st2.partial
         /\ lines' = st2.lines
         /\ logTruncs' = st2.truncs
         /\ readLog' = st2.log
  /\ UNCHANGED <<inodes, pathIno, fdIno, lock, fopen, logRotations, envTruncs,
                 envRots, openOff, seekToStart, atSwap>>

\* File.Close: flush the partial line, close the descriptor
FileClose ==
  /\ fopen
  /\ UNCHANGED <<wvars, gvars>>
  /\ lastOp' = "Close"
  /\ lines' = IF Len(partial) > 0 THEN sendLine(FileState, "close").lines ELSE lines
  /\ partial' = <<>>
  /\ fopen' = FALSE
  /\ UNCHANGED <<inodes, pathIno, fdIno, offset, lock, logRotations, logTruncs,
                 readLog, envTruncs, envRots, openOff, seekToStart, atSwap>>

(***************************************************************************)
(* The environment of a tailed file: a writer appending to the file at the *)
(* path, truncation in place, and rotation (unlink, then create).          *)
(***************************************************************************)
Write(a) ==
  /\ fopen
  /\ UNCHANGED <<wvars, gvars>>
  /\ pathIno # 0
  /\ Len(inodes[pathIno]) + Len(a) <= MaxLen
  /\ inodes' = [inodes EXCEPT ![pathIno] = @ \o a]
  /\ lastOp' = "Write"
  /\ UNCHANGED <<pathIno, fdIno, offset, partial, lock, fopen, lines,
                 logRotations, logTruncs, readLog, envTruncs, envRots, openOff,
                 seekToStart, atSwap>>

Truncate(k) ==
  /\ fopen
  /\ UNCHANGED <<wvars, gvars>>
  /\ pathIno # 0
  /\ envTruncs < MaxTrunc
  /\ k < Len(inodes[pathIno])
  /\ inodes' = [inodes EXCEPT ![pathIno] = SubSeq(@, 1, k)]
  /\ envTruncs' = envTruncs + 1
  /\ lastOp' = "Truncate"
  /\ UNCHANGED <<pathIno, fdIno, offset, partial, lock, fopen, lines,
                 logRotations, logTruncs, readLog, envRots, openOff,
                 seekToStart, atSwap>>

Unlink ==
  /\ fopen
  /\ UNCHANGED <<wvars, gvars>>
  /\ pathIno # 0
  /\ envRots < MaxRot
  /\ pathIno' = 0
  /\ envRots' = envRots + 1
  /\ lastOp' = "Unlink"
  /\ UNCHANGED <<inodes, fdIno, offset, partial, lock, fopen, lines,
                 logRotations, logTruncs, readLog, envTruncs, openOff,
                 seekToStart, atSwap>>

Create ==
  /\ fopen
  /\ UNCHANGED <<wvars, gvars>>
  /\ pathIno = 0
  /\ pathIno' = envRots + 1
  /\ lastOp' = "Create"
  /\ UNCHANGED <<inodes, fdIno, offset, partial, lock, fopen, lines,
                 logRotations, logTruncs, readLog, envTruncs, envRots, openOff,
                 seekToStart, atSwap>>

(***************************************************************************)
(* LogWatcher.  Paths are [abs, segs]: absolute or not, and the elements.  *)
(***************************************************************************)
Path(isAbs, segs) == [abs |-> isAbs, segs |-> segs]

\* the working directory of the process
Cwd == <<"d">>

\* filepath.Abs
Abs(p) == IF p.abs THEN p ELSE Path(TRUE, Cwd \o p.segs)

\* filepath.Dir
Dir(p) ==
  IF p.segs = <<>> THEN p ELSE Path(p.abs, SubSeq(p.segs, 1, Len(p.segs) - 1))

Root == Path(TRUE, <<>>)
DevPath == Path(TRUE, <<"dev">>)
DirD == Path(TRUE, <<"d">>)
FileA == Path(TRUE, <<"d", "a">>)
FileB == Path(TRUE, <<"d", "b">>)
RelA == Path(FALSE, <<"a">>)

\* the paths callers pass to Add and Remove
InputPaths == {DirD, FileA, RelA, DevPath}

\* the handles callers pass to Add: those Events() returned, and others
Handles == (0 - 1)..MaxQueues

\* what fsnotify reports: an Op (a set of flags) on a name
Ops == {{"Create"}, {"Write"}, {"Remove"}, {"Rename"}, {"Chmod"}, {"Create", "Write"}}
NativeNames == {DirD, FileA, FileB}

\* the switch of runEvents
Translate(op) ==
  IF "Create" \in op THEN "Create"
  ELSE IF "Write" \in op \/ "Chmod" \in op THEN "Update"
  ELSE IF "Remove" \in op THEN "Delete"
  ELSE IF "Rename" \in op THEN "Delete"
  ELSE "panic"

Callers == 1..NCallers
Queues == 1..MaxQueues

NoEvent == [kind |-> "none", path |-> Root]
NoArg == [path |-> Root, handle |-> 0]

\* sync.RWMutex: a blocked Lock() keeps new readers out
RLockable(mu) == mu.w = 0 /\ mu.pend = {}
Lockable(mu) == mu.w = 0 /\ mu.r = 0
Pend(mu, c) == [mu EXCEPT !.pend = @ \cup {c}]
Unpend(mu, c) == [mu EXCEPT !.pend = @ \ {c}]

\* the map w.watched
Has(m, k) == k \in DOMAIN m
Put(m, k, v) == [x \in DOMAIN m \cup {k} |-> IF x = k THEN v ELSE m[x]]
Delete(m, k) == [x \in DOMAIN m \ {k} |-> m[x]]

cfgv == <<watcherOn, pollOn>>
shutv == <<stopTicks, ticksDone, eventsDone, closeOnce>>
fsv == <<fsClosed, fsWatches>>
runEv == <<pcE, evE, chE>>
runTk == <<pcT, todoT, curT>>

Idle(c) == ~panicked /\ pc[c] = "idle" /\ nCalls < MaxCalls
Return(c, r) ==
  /\ pc' = [pc EXCEPT ![c] = "idle"]
  /\ arg' = [arg EXCEPT ![c] = NoArg]
  /\ ret' = [ret EXCEPT ![c] = r]
Goto(c, l) == pc' = [pc EXCEPT ![c] = l]

(***************************************************************************)
(* Events()                                                                *)
(***************************************************************************)
EventsCall(c) ==
  /\ ~panicked
  /\ pc[c] = "idle"
  /\ events + Cardinality({d \in Callers : pc[d] = "Events"}) < MaxQueues
  /\ UNCHANGED nCalls
  /\ eventsMu' = Pend(eventsMu, c)
  /\ Goto(c, "Events")
  /\ UNCHANGED <<fvars, gvars, cfgv, events, chClosed, watched, watchedMu, shutv, fsv,
                 runEv, runTk, arg, ret, panicked>>

EventsAppend(c) ==
  /\ ~panicked
  /\ pc[c] = "Events"
  /\ Lockable(eventsMu)
  /\ events' = events + 1
  /\ eventsMu' = Unpend(eventsMu, c)
  /\ Return(c, "handle")
  /\ UNCHANGED <<fvars, gvars, cfgv, chClosed, watched, watchedMu, shutv, fsv, runEv,
                 runTk, nCalls, panicked>>

(***************************************************************************)
(* Add(path, handle)                                                       *)
(***************************************************************************)
\* lines 463-467: the bounds check under eventsMu.RLock(); the error return
\* leaves the read lock held
AddCheck(c, p, h) ==
  /\ Idle(c)
  /\ RLockable(eventsMu)
  /\ nCalls' = nCalls + 1
  /\ IF h > events
     THEN /\ eventsMu' = [eventsMu EXCEPT !.r = @ + 1]
          /\ Return(c, "err")
     ELSE /\ Goto(c, "IsWatching")
          /\ arg' = [arg EXCEPT ![c] = [path |-> p, handle |-> h]]
          /\ UNCHANGED <<eventsMu, ret>>
  /\ UNCHANGED <<fvars, gvars, cfgv, events, chClosed, watched, watchedMu, shutv, fsv,
                 runEv, runTk, panicked>>

\* IsWatching(path)
IsWatching(p) == Has(watched, Abs(p))

\* Add as it would be without the IsWatching test
AddNoIsWatching(c) ==
  /\ ~panicked
  /\ pc[c] = "IsWatching"
  /\ RLockable(watchedMu)
  /\ Goto(c, "watcherAdd")
  /\ UNCHANGED <<fvars, gvars, cfgv, events, chClosed, watched, eventsMu, watchedMu,
                 shutv, fsv, runEv, runTk, arg, ret, nCalls, panicked>>

\* lines 468-470
AddIsWatching(c) ==
  /\ ~panicked
  /\ pc[c] = "IsWatching"
  /\ RLockable(watchedMu)
  /\ IF IsWatching(arg[c].path)
     THEN Return(c, "nil")
     ELSE Goto(c, "watcherAdd") /\ UNCHANGED <<arg, ret>>
  /\ UNCHANGED <<fvars, gvars, cfgv, events, chClosed, watched, eventsMu, watchedMu,
                 shutv, fsv, runEv, runTk, nCalls, panicked>>

\* lines 475-489: w.watcher.Add(absPath) unless the path is /dev, then
\* watchedMu.Lock() is called.  w.watcher.Add on a nil watcher panics; on a
\* live one it installs the watch, fails with a permission error, or fails
\* otherwise (always, once the watcher is closed)
AddWatch(c) ==
  /\ ~panicked
  /\ pc[c] = "watcherAdd"
  /\ LET absPath == Abs(arg[c].path)
     IN  IF absPath = DevPath
         THEN /\ Goto(c, "Lock")
              /\ watchedMu' = Pend(watchedMu, c)
              /\ UNCHANGED <<arg, ret, fsWatches, panicked>>
         ELSE IF ~watcherOn
         THEN /\ panicked' = TRUE
              /\ UNCHANGED <<pc, arg, ret, fsWatches, watchedMu>>
         ELSE \E outcome \in (IF fsClosed THEN {"error"} ELSE {"ok", "permission", "error"}) :
                IF outcome = "error"
                THEN Return(c, "err") /\ UNCHANGED <<fsWatches, watchedMu, panicked>>
                ELSE /\ Goto(c, "Lock")
                     /\ watchedMu' = Pend(watchedMu, c)
                     /\ fsWatches' = IF outcome = "ok" THEN fsWatches \cup {absPath}
                                     ELSE fsWatches
                     /\ UNCHANGED <<arg, ret, panicked>>
  /\ UNCHANGED <<fvars, gvars, cfgv, events, chClosed, watched, eventsMu, shutv,
                 fsClosed, runEv, runTk, nCalls>>

\* line 489: watchedMu.Lock() returns
AddLock(c) ==
  /\ ~panicked
  /\ pc[c] = "Lock"
  /\ Lockable(watchedMu)
  /\ watchedMu' = [Unpend(watchedMu, c) EXCEPT !.w = c]
  /\ Goto(c, "write")
  /\ UNCHANGED <<fvars, gvars, cfgv, events, chClosed, watched, eventsMu, shutv, fsv,
                 runEv, runTk, arg, ret, nCalls, panicked>>

\* Add as it would be without the assignment to w.watched
AddWriteSkipped(c) ==
  /\ ~panicked
  /\ pc[c] = "write"
  /\ RLockable(eventsMu)
  /\ watchedMu' = [watchedMu EXCEPT !.w = 0]
  /\ Return(c, "nil")
  /\ UNCHANGED <<fvars, gvars, cfgv, events, chClosed, watched, eventsMu, shutv,
                 fsv, runEv, runTk, nCalls, panicked>>

\* lines 490-494: w.watched[absPath] = w.events[handle] under eventsMu.RLock();
\* an index out of range panics
AddWrite(c) ==
  /\ ~panicked
  /\ pc[c] = "write"
  /\ RLockable(eventsMu)
  /\ IF arg[c].handle < 0 \/ arg[c].handle >= events
     THEN /\ panicked' = TRUE
          /\ UNCHANGED <<pc, arg, ret, watched, watchedMu>>
     ELSE /\ watched' = Put(watched, Abs(arg[c].path), arg[c].handle + 1)
          /\ watchedMu' = [watchedMu EXCEPT !.w = 0]
          /\ Return(c, "nil")
          /\ UNCHANGED panicked
  /\ UNCHANGED <<fvars, gvars, cfgv, events, chClosed, eventsMu, shutv, fsv, runEv,
                 runTk, nCalls>>

(***************************************************************************)
(* Remove(path)                                                            *)
(***************************************************************************)
RemoveCall(c, p) ==
  /\ Idle(c)
  /\ nCalls' = nCalls + 1
  /\ watchedMu' = Pend(watchedMu, c)
  /\ Goto(c, "Remove")
  /\ arg' = [arg EXCEPT ![c] = [path |-> p, handle |-> 0]]
  /\ UNCHANGED <<fvars, gvars, cfgv, events, chClosed, watched, eventsMu, shutv, fsv,
                 runEv, runTk, ret, panicked>>

\* lines 513-515: delete(w.watched, path), the path as given
RemoveDelete(c) ==
  /\ ~panicked
  /\ pc[c] = "Remove"
  /\ Lockable(watchedMu)
  /\ watched' = Delete(watched, arg[c].path)
  /\ watchedMu' = Unpend(watchedMu, c)
  /\ IF watcherOn
     THEN Goto(c, "watcherRemove") /\ UNCHANGED <<arg, ret>>
     ELSE Return(c, "nil")
  /\ UNCHANGED <<fvars, gvars, cfgv, events, chClosed, eventsMu, shutv, fsv, runEv,
                 runTk, nCalls, panicked>>

\* lines 516-518: w.watcher.Remove(path) fails for a path it does not watch
RemoveWatch(c) ==
  /\ ~panicked
  /\ pc[c] = "watcherRemove"
  /\ IF arg[c].path \in fsWatches
     THEN fsWatches' = fsWatches \ {arg[c].path} /\ Return(c, "nil")
     ELSE UNCHANGED fsWatches /\ Return(c, "err")
  /\ UNCHANGED <<fvars, gvars, cfgv, events, chClosed, watched, eventsMu, watchedMu,
                 shutv, fsClosed, runEv, runTk, nCalls, panicked>>

(***************************************************************************)
(* Close()                                                                 *)
(***************************************************************************)
\* where the function passed to closeOnce.Do goes next
AfterEvents == IF pollOn THEN "closeStop" ELSE "eventsLock"

\* Close as it would be without closeOnce: every caller runs the function
OnceDoAlways(c) ==
  /\ closeOnce' = "running"
  /\ Goto(c, IF watcherOn THEN "watcherClose" ELSE AfterEvents)

\* sync.Once.Do: the first caller runs the function, the others wait for it
OnceDo(c) ==
  IF closeOnce = "fresh"
  THEN /\ closeOnce' = "running"
       /\ Goto(c, IF watcherOn THEN "watcherClose" ELSE AfterEvents)
  ELSE /\ Goto(c, "onceWait")
       /\ UNCHANGED closeOnce

CloseCall(c) ==
  /\ Idle(c)
  /\ nCalls' = nCalls + 1
  /\ OnceDo(c)
  /\ eventsMu' = IF pc'[c] = "eventsLock" THEN Pend(eventsMu, c) ELSE eventsMu
  /\ UNCHANGED <<fvars, gvars, cfgv, events, chClosed, watched, watchedMu, stopTicks,
                 ticksDone, eventsDone, fsv, runEv, runTk, arg, ret, panicked>>

CloseOnceWait(c) ==
  /\ ~panicked
  /\ pc[c] = "onceWait"
  /\ closeOnce = "done"
  /\ Return(c, "nil")
  /\ UNCHANGED <<fvars, gvars, cfgv, events, chClosed, watched, eventsMu, watchedMu,
                 shutv, fsv, runEv, runTk, nCalls, panicked>>

\* line 443: w.watcher.Close()
CloseWatcher(c) ==
  /\ ~panicked
  /\ pc[c] = "watcherClose"
  /\ fsClosed' = TRUE
  /\ Goto(c, "eventsDone")
  /\ UNCHANGED <<fvars, gvars, cfgv, events, chClosed, watched, eventsMu, watchedMu,
                 shutv, fsWatches, runEv, runTk, arg, ret, nCalls, panicked>>

\* line 444: <-w.eventsDone
CloseEventsDone(c) ==
  /\ ~panicked
  /\ pc[c] = "eventsDone"
  /\ eventsDone
  /\ Goto(c, AfterEvents)
  /\ eventsMu' = IF AfterEvents = "eventsLock" THEN Pend(eventsMu, c) ELSE eventsMu
  /\ UNCHANGED <<fvars, gvars, cfgv, events, chClosed, watched, watchedMu, shutv, fsv,
                 runEv, runTk, arg, ret, nCalls, panicked>>

\* line 447: close(w.stopTicks)
CloseStop(c) ==
  /\ ~panicked
  /\ pc[c] = "closeStop"
  /\ stopTicks' = stopTicks + 1
  /\ Goto(c, "ticksDone")
  /\ UNCHANGED <<fvars, gvars, cfgv, events, chClosed, watched, eventsMu, watchedMu,
                 ticksDone, eventsDone, closeOnce, fsv, runEv, runTk, arg, ret,
                 nCalls, panicked>>

\* Close as it would be without the wait for ticksDone
CloseTicksNoWait(c) ==
  /\ ~panicked
  /\ pc[c] = "ticksDone"
  /\ Goto(c, "eventsLock")
  /\ eventsMu' = Pend(eventsMu, c)
  /\ UNCHANGED <<fvars, gvars, cfgv, events, chClosed, watched, watchedMu, shutv, fsv,
                 runEv, runTk, arg, ret, nCalls, panicked>>

\* line 448: <-w.ticksDone, then eventsMu.Lock() is called
CloseTicksDone(c) ==
  /\ ~panicked
  /\ pc[c] = "ticksDone"
  /\ ticksDone
  /\ Goto(c, "eventsLock")
  /\ eventsMu' = Pend(eventsMu, c)
  /\ UNCHANGED <<fvars, gvars, cfgv, events, chClosed, watched, watchedMu, shutv, fsv,
                 runEv, runTk, arg, ret, nCalls, panicked>>

\* lines 451-457: every channel of w.events is closed under eventsMu.Lock(),
\* and Do returns
CloseChannels(c) ==
  /\ ~panicked
  /\ pc[c] = "eventsLock"
  /\ Lockable(eventsMu)
  /\ chClosed' = [q \in Queues |-> IF q <= events THEN chClosed[q] + 1 ELSE chClosed[q]]
  /\ eventsMu' = Unpend(eventsMu, c)
  /\ closeOnce' = "done"
  /\ Return(c, "nil")
  /\ UNCHANGED <<fvars, gvars, cfgv, events, watched, watchedMu, stopTicks, ticksDone,
                 eventsDone, fsv, runEv, runTk, nCalls, panicked>>

\* runEvents as it would be if it took the next event while the send of
\* the last one is still pending
EventsRangeEager(op, name) ==
  /\ ~panicked
  /\ pcE \in {"range", "send"}
  /\ ~fsClosed
  /\ name \in fsWatches \/ Dir(name) \in fsWatches
  /\ evE' = [kind |-> Translate(op), path |-> name]
  /\ pcE' = "lookup"
  /\ UNCHANGED <<fvars, gvars, cfgv, events, chClosed, watched, eventsMu, watchedMu,
                 shutv, fsv, chE, runTk, pc, arg, ret, nCalls, panicked>>

(***************************************************************************)
(* runEvents and sendEvent                                                 *)
(***************************************************************************)
\* line 418: the next event of w.watcher.Events, for a watched name or an
\* entry of a watched directory, and the switch that translates it
EventsRange(op, name) ==
  /\ ~panicked
  /\ pcE = "range"
  /\ ~fsClosed
  /\ name \in fsWatches \/ Dir(name) \in fsWatches
  /\ evE' = [kind |-> Translate(op), path |-> name]
  /\ pcE' = "lookup"
  /\ UNCHANGED <<fvars, gvars, cfgv, events, chClosed, watched, eventsMu, watchedMu,
                 shutv, fsv, chE, runTk, pc, arg, ret, nCalls, panicked>>

\* line 418, 436, 408: w.watcher.Events is closed: the loop ends and
\* eventsDone is closed
EventsExit ==
  /\ ~panicked
  /\ pcE = "range"
  /\ fsClosed
  /\ pcE' = "done"
  /\ eventsDone' = TRUE
  /\ UNCHANGED <<fvars, gvars, cfgv, events, chClosed, watched, eventsMu, watchedMu,
                 stopTicks, ticksDone, closeOnce, fsv, evE, chE, runTk, pc, arg,
                 ret, nCalls, panicked>>

\* sendEvent as it would be with the directory looked up first
sendEventDirFirst ==
  /\ ~panicked
  /\ pcE = "lookup"
  /\ RLockable(watchedMu)
  /\ IF Has(watched, Dir(evE.path))
     THEN chE' = watched[Dir(evE.path)] /\ pcE' = "send"
     ELSE chE' = chE /\ pcE' = "lookupDir"
  /\ UNCHANGED <<fvars, gvars, cfgv, events, chClosed, watched, eventsMu, watchedMu,
                 shutv, fsv, evE, runTk, pc, arg, ret, nCalls, panicked>>

\* sendEvent, lines 367-370: the channel registered for the event's path
sendEventLookup ==
  /\ ~panicked
  /\ pcE = "lookup"
  /\ RLockable(watchedMu)
  /\ IF Has(watched, evE.path)
     THEN chE' = watched[evE.path] /\ pcE' = "send"
     ELSE chE' = chE /\ pcE' = "lookupDir"
  /\ UNCHANGED <<fvars, gvars, cfgv, events, chClosed, watched, eventsMu, watchedMu,
                 shutv, fsv, evE, runTk, pc, arg, ret, nCalls, panicked>>

\* sendEvent, lines 370-380: else the channel registered for its directory,
\* else the event is dropped
sendEventLookupDir ==
  /\ ~panicked
  /\ pcE = "lookupDir"
  /\ RLockable(watchedMu)
  /\ IF Has(watched, Dir(evE.path))
     THEN chE' = watched[Dir(evE.path)] /\ pcE' = "send" /\ evE' = evE
     ELSE chE' = chE /\ pcE' = "range" /\ evE' = NoEvent
  /\ UNCHANGED <<fvars, gvars, cfgv, events, chClosed, watched, eventsMu, watchedMu,
                 shutv, fsv, runTk, pc, arg, ret, nCalls, panicked>>

\* line 377: c <- e completes when the consumer of c receives
sendEventRecv(q) ==
  /\ ~panicked
  /\ pcE = "send"
  /\ chE = q
  /\ pcE' = "range"
  /\ evE' = NoEvent
  /\ chE' = 0
  /\ UNCHANGED <<fvars, gvars, cfgv, events, chClosed, watched, eventsMu, watchedMu,
                 shutv, fsv, runTk, pc, arg, ret, nCalls, panicked>>

(***************************************************************************)
(* runTicks                                                                *)
(***************************************************************************)
\* line 393: a tick is received
TickReceive ==
  /\ ~panicked
  /\ pcT = "select"
  /\ pcT' = "RLock"
  /\ UNCHANGED <<fvars, gvars, cfgv, events, chClosed, watched, eventsMu, watchedMu,
                 shutv, fsv, runEv, todoT, curT, pc, arg, ret, nCalls, panicked>>

\* the range loop of lines 395-398 goes on: to the send of any entry not yet
\* visited, or to RUnlock and back to the select
TickContinue(todo) ==
  IF todo = {}
  THEN /\ pcT' = "select"
       /\ todoT' = {}
       /\ curT' = Root
       /\ watchedMu' = [watchedMu EXCEPT !.r = @ - 1]
  ELSE /\ pcT' = "send"
       /\ \E n \in todo : curT' = n /\ todoT' = todo \ {n}
       /\ UNCHANGED watchedMu

\* lines 394-395: watchedMu.RLock() returns and the range loop starts
TickRLock ==
  /\ ~panicked
  /\ pcT = "RLock"
  /\ RLockable(watchedMu)
  /\ IF DOMAIN watched = {}
     THEN pcT' = "select" /\ UNCHANGED <<todoT, curT, watchedMu>>
     ELSE /\ pcT' = "send"
          /\ watchedMu' = [watchedMu EXCEPT !.r = @ + 1]
          /\ \E n \in DOMAIN watched : curT' = n /\ todoT' = DOMAIN watched \ {n}
  /\ UNCHANGED <<fvars, gvars, cfgv, events, chClosed, watched, eventsMu, shutv, fsv,
                 runEv, pc, arg, ret, nCalls, panicked>>

\* line 396: c <- Event{Update, n} completes when the consumer of c receives
TickRecv(q) ==
  /\ ~panicked
  /\ pcT = "send"
  /\ watched[curT] = q
  /\ TickContinue(todoT)
  /\ UNCHANGED <<fvars, gvars, cfgv, events, chClosed, watched, eventsMu, shutv, fsv,
                 runEv, pc, arg, ret, nCalls, panicked>>

\* lines 399-401, 384: stopTicks is closed: the loop ends and ticksDone is closed
TickStop ==
  /\ ~panicked
  /\ pcT = "select"
  /\ stopTicks > 0
  /\ pcT' = "done"
  /\ ticksDone' = TRUE
  /\ UNCHANGED <<fvars, gvars, cfgv, events, chClosed, watched, eventsMu, watchedMu,
                 stopTicks, eventsDone, closeOnce, fsv, runEv, todoT, curT, pc,
                 arg, ret, nCalls, panicked>>

(***************************************************************************)
(* NewLogWatcher: the state after construction.  The native backend, the   *)
(* poll driver, or both are running.                                       *)
(***************************************************************************)
NewLogWatcher(pollInterval, enableFsnotify) ==
  /\ watcherOn = enableFsnotify
  /\ pollOn = (pollInterval > 0 \/ ~enableFsnotify)
  /\ events = 0
  /\ chClosed = [q \in Queues |-> 0]
  /\ watched = [x \in {} |-> 0]
  /\ eventsMu = [r |-> 0, w |-> 0, pend |-> {}]
  /\ watchedMu = [r |-> 0, w |-> 0, pend |-> {}]
  /\ stopTicks = 0
  /\ ticksDone = FALSE
  /\ eventsDone = FALSE
  /\ closeOnce = "fresh"
  /\ fsClosed = FALSE
  /\ fsWatches = {}
  /\ pcE = (IF watcherOn THEN "range" ELSE "none")
  /\ evE = NoEvent
  /\ chE = 0
  /\ pcT = (IF pollOn THEN "select" ELSE "none")
  /\ todoT = {}
  /\ curT = Root
  /\ pc = [c \in Callers |-> "idle"]
  /\ arg = [c \in Callers |-> NoArg]
  /\ ret = [c \in Callers |-> "none"]
  /\ nCalls = 0
  /\ panicked = FALSE

(***************************************************************************)
(* NewFile: the state after construction on a regular file that holds      *)
(* some content already; seekToStart positions at 0, else at end of file.  *)
(***************************************************************************)
(***************************************************************************)
(* Read and Close statement by statement, for the case that Close is       *)
(* called from another goroutine while Read is in its rune loop.  The      *)
(* file is only appended to here, so the truncation branch of Read (lines  *)
(* 184-194) is never taken and is left out of ReadChunk.                   *)
(***************************************************************************)
Procs == {"read", "close"}

GotoG(p, l) == pcG' = [pcG EXCEPT ![p] = l]

\* Read, lines 172-179: f.lock = true and one f.file.Read of at most cap(b)
\* bytes (a read of zero bytes changes nothing and returns EOF)
ReadChunk ==
  /\ fopen
  /\ pcG["read"] = "idle"
  /\ offset < Len(inodes[fdIno])
  /\ LET b == SubSeq(inodes[fdIno], offset + 1,
                     Min(offset + ChunkCap, Len(inodes[fdIno])))
     IN  /\ pendR' = b
         /\ offset' = offset + Len(b)
         /\ readLog' = readLog \o b
  /\ lock' = TRUE
  /\ GotoG("read", "rune")
  /\ lastOp' = "Read"
  /\ UNCHANGED <<inodes, pathIno, fdIno, partial, fopen, lines, logRotations,
                 logTruncs, envTruncs, envRots, openOff, seekToStart, atSwap,
                 partialLock, runeR, held, fed, wvars>>

\* lines 200-202 and 210: the head of the rune loop decodes the next rune
\* of b, or the loop is over and f.lock = false
ReadRune ==
  /\ pcG["read"] = "rune"
  /\ IF pendR = <<>>
     THEN /\ lock' = FALSE
          /\ GotoG("read", "idle")
          /\ UNCHANGED <<pendR, runeR, fed>>
     ELSE LET d == DecodeRune(pendR)
          IN  /\ runeR' = d.rune
              /\ pendR' = SubSeq(pendR, d.width + 1, Len(pendR))
              /\ IF d.rune # NewLine
                 THEN GotoG("read", "waitForLock") /\ fed' = fed
                 ELSE GotoG("read", "sendLine") /\ fed' = fed \o <<NewLine>>
              /\ UNCHANGED lock
  /\ UNCHANGED <<inodes, pathIno, fdIno, offset, partial, fopen, lines,
                 logRotations, logTruncs, readLog, envTruncs, envRots, openOff,
                 seekToStart, lastOp, atSwap, partialLock, held, wvars>>

\* lines 204, 222-226: waitForLock tests f.partialLock once; if it is set
\* it sleeps a millisecond, and it returns either way
waitForLock ==
  /\ pcG["read"] = "waitForLock"
  /\ GotoG("read", "WriteRune")
  /\ UNCHANGED <<fvars, wvars, partialLock, pendR, runeR, held, fed>>

\* line 205: f.partial.WriteRune(rune)
WriteRune ==
  /\ pcG["read"] = "WriteRune"
  /\ partial' = partial \o EncodeRune(runeR)
  /\ fed' = fed \o EncodeRune(runeR)
  /\ GotoG("read", "rune")
  /\ UNCHANGED <<inodes, pathIno, fdIno, offset, lock, fopen, lines,
                 logRotations, logTruncs, readLog, envTruncs, envRots, openOff,
                 seekToStart, lastOp, atSwap, partialLock, pendR, runeR, held,
                 wvars>>

\* line 230: f.partialLock = true
sendLineLock(p) ==
  /\ pcG[p] = "sendLine"
  /\ partialLock' = TRUE
  /\ GotoG(p, "String")
  /\ UNCHANGED <<fvars, wvars, pendR, runeR, held, fed>>

\* line 231: f.partial.String() is evaluated
sendLineString(p) ==
  /\ pcG[p] = "String"
  /\ held' = [held EXCEPT ![p] = partial]
  /\ GotoG(p, "send")
  /\ UNCHANGED <<fvars, wvars, partialLock, pendR, runeR, fed>>

\* line 231: f.lines <- ... completes when the consumer receives
sendLineSend(p) ==
  /\ pcG[p] = "send"
  /\ lines' = Append(lines, [text |-> held[p], by |-> p])
  /\ GotoG(p, "Reset")
  /\ UNCHANGED <<inodes, pathIno, fdIno, offset, partial, lock, fopen,
                 logRotations, logTruncs, readLog, envTruncs, envRots, openOff,
                 seekToStart, lastOp, atSwap, partialLock, pendR, runeR, held,
                 fed, wvars>>

\* line 235: f.partial.Reset()
sendLineReset(p) ==
  /\ pcG[p] = "Reset"
  /\ partial' = <<>>
  /\ GotoG(p, "unlock")
  /\ UNCHANGED <<inodes, pathIno, fdIno, offset, lock, fopen, lines,
                 logRotations, logTruncs, readLog, envTruncs, envRots, openOff,
                 seekToStart, lastOp, atSwap, partialLock, pendR, runeR, held,
                 fed, wvars>>

\* line 236: f.partialLock = false, and sendLine returns to its caller
sendLineUnlock(p) ==
  /\ pcG[p] = "unlock"
  /\ partialLock' = FALSE
  /\ GotoG(p, IF p = "read" THEN "rune" ELSE "fileClose")
  /\ UNCHANGED <<fvars, wvars, pendR, runeR, held, fed>>

\* lines 276-279: Close is called
CloseCallFile ==
  /\ fopen
  /\ pcG["close"] = "idle"
  /\ GotoG("close", IF Len(partial) > 0 THEN "sendLine" ELSE "fileClose")
  /\ UNCHANGED <<fvars, wvars, partialLock, pendR, runeR, held, fed>>

\* line 280: f.file.Close()
CloseFile ==
  /\ pcG["close"] = "fileClose"
  /\ fopen' = FALSE
  /\ lastOp' = "Close"
  /\ GotoG("close", "done")
  /\ UNCHANGED <<inodes, pathIno, fdIno, offset, partial, lock, lines,
                 logRotations, logTruncs, readLog, envTruncs, envRots, openOff,
                 seekToStart, atSwap, partialLock, pendR, runeR, held, fed,
                 wvars>>

PreContents == { <<>>, <<97>>, <<97, NewLine>> }

NewFile(pre, toStart) ==
  /\ inodes = [i \in 1..(MaxRot + 1) |-> IF i = 1 THEN pre ELSE <<>>]
  /\ pathIno = 1
  /\ fdIno = 1
  /\ seekToStart = toStart
  /\ offset = (IF toStart THEN 0 ELSE Len(pre))
  /\ openOff = offset
  /\ partial = <<>>
  /\ lock = FALSE
  /\ fopen = TRUE
  /\ lines = <<>>
  /\ logRotations = 0
  /\ logTruncs = 0
  /\ readLog = <<>>
  /\ envTruncs = 0
  /\ envRots = 0
  /\ lastOp = "NewFile"
  /\ atSwap = [from |-> 0, off |-> 0, log |-> <<>>, partial |-> <<>>,
               nlines |-> 0, base |-> 0]
  /\ partialLock = FALSE
  /\ pcG = [p \in Procs |-> "idle"]
  /\ pendR = <<>>
  /\ runeR = 0
  /\ held = [p \in Procs |-> <<>>]
  /\ fed = <<>>

FileInit ==
  /\ \E pre \in PreContents, toStart \in BOOLEAN : NewFile(pre, toStart)
  /\ NewLogWatcher(0, TRUE)

WatcherInit ==
  /\ \E pollInterval \in {0, 1}, enableFsnotify \in BOOLEAN :
       NewLogWatcher(pollInterval, enableFsnotify)
  /\ NewFile(<<>>, FALSE)

\* a file that is only appended to
AppendNext ==
  \/ \E a \in Atoms : Write(a)
  \/ Follow
  \/ FileClose

\* a file that is appended to and truncated in place
TruncNext ==
  \/ \E a \in Atoms : Write(a)
  \/ \E k \in 0..MaxLen : Truncate(k)
  \/ Follow
  \/ FileClose

\* a file that is appended to and rotated
RotNext ==
  \/ \E a \in Atoms : Write(a)
  \/ Unlink
  \/ Create
  \/ Follow
  \/ FileClose

WatcherNext ==
  \/ \E c \in Callers :
       \/ EventsCall(c)
       \/ EventsAppend(c)
       \/ \E p \in InputPaths, h \in Handles : AddCheck(c, p, h)
       \/ AddIsWatching(c)
       \/ AddWatch(c)
       \/ AddLock(c)
       \/ AddWrite(c)
       \/ \E p \in InputPaths : RemoveCall(c, p)
       \/ RemoveDelete(c)
       \/ RemoveWatch(c)
       \/ CloseCall(c)
       \/ CloseOnceWait(c)
       \/ CloseWatcher(c)
       \/ CloseEventsDone(c)
       \/ CloseStop(c)
       \/ CloseTicksDone(c)
       \/ CloseChannels(c)
  \/ \E op \in Ops, name \in NativeNames : EventsRange(op, name)
  \/ EventsExit
  \/ sendEventLookup
  \/ sendEventLookupDir
  \/ \E q \in Queues : sendEventRecv(q)
  \/ TickReceive
  \/ TickRLock
  \/ \E q \in Queues : TickRecv(q)
  \/ TickStop

Spec == WatcherInit /\ [][WatcherNext]_vars
\* Scheduling: a goroutine that can take its next step takes it, a lock that
\* keeps becoming free is acquired, the ticker keeps ticking, a select with
\* stopTicks closed takes that case in the end, and (the proviso of the
\* liveness claims) every consumer keeps receiving from its channel.
CallerStep(c) ==
  \/ EventsAppend(c)
  \/ AddIsWatching(c)
  \/ AddWatch(c)
  \/ AddLock(c)
  \/ AddWrite(c)
  \/ RemoveDelete(c)
  \/ RemoveWatch(c)
  \/ CloseOnceWait(c)
  \/ CloseWatcher(c)
  \/ CloseEventsDone(c)
  \/ CloseStop(c)
  \/ CloseTicksDone(c)
  \/ CloseChannels(c)

Fairness ==
  /\ \A c \in Callers : SF_vars(CallerStep(c))
  /\ SF_vars(EventsExit \/ sendEventLookup \/ sendEventLookupDir)
  /\ WF_vars(TickReceive)
  /\ SF_vars(TickRLock)
  /\ SF_vars(TickStop)
  /\ \A q \in Queues : SF_vars(sendEventRecv(q)) /\ SF_vars(TickRecv(q))

\* The steps of WatcherNext over one path and one kind of native event: the
\* locks and channels that termination depends on do not look at either.
LiveNext ==
  \/ \E c \in Callers :
       \/ EventsCall(c)
       \/ \E h \in Handles : AddCheck(c, FileA, h)
       \/ RemoveCall(c, FileA)
       \/ CloseCall(c)
       \/ CallerStep(c)
  \/ EventsRange({"Write"}, FileA)
  \/ EventsExit
  \/ sendEventLookup
  \/ sendEventLookupDir
  \/ \E q \in Queues : sendEventRecv(q)
  \/ TickReceive
  \/ TickRLock
  \/ \E q \in Queues : TickRecv(q)
  \/ TickStop

SpecLive == WatcherInit /\ [][LiveNext]_vars /\ Fairness

\* Subscribers: caller c is the consumer of the channel Events() gave it,
\* the c-th one; it registers paths with its own handle, and it receives
\* from its channel only between its calls, not while it is inside one.
SubRecvTick(q) == q \in Callers /\ pc[q] = "idle" /\ TickRecv(q)

SubRecvEvent(q) == q \in Callers /\ pc[q] = "idle" /\ sendEventRecv(q)

SubEvents(c) == events = c - 1 /\ EventsCall(c)

SubAdd(c, p) == events >= c /\ AddCheck(c, p, c - 1)

SubRemove(c, p) == events >= c /\ RemoveCall(c, p)

SubStep(c) ==
  \/ EventsAppend(c)
  \/ AddIsWatching(c)
  \/ AddWatch(c)
  \/ AddLock(c)
  \/ AddWrite(c)
  \/ RemoveDelete(c)
  \/ RemoveWatch(c)

SubNext ==
  \/ \E c \in Callers :
       \/ SubEvents(c)
       \/ SubAdd(c, FileA)
       \/ SubRemove(c, FileA)
       \/ SubStep(c)
  \/ EventsRange({"Write"}, FileA)
  \/ sendEventLookup
  \/ sendEventLookupDir
  \/ \E q \in Queues : SubRecvEvent(q)
  \/ TickReceive
  \/ TickRLock
  \/ \E q \in Queues : SubRecvTick(q)

\* Scheduling as in Fairness, with the subscribers as the consumers
SubFairness ==
  /\ \A c \in Callers : SF_vars(SubStep(c))
  /\ SF_vars(sendEventLookup \/ sendEventLookupDir)
  /\ WF_vars(TickReceive)
  /\ SF_vars(TickRLock)
  /\ \A q \in Queues : SF_vars(SubRecvEvent(q)) /\ SF_vars(SubRecvTick(q))

SpecSub == WatcherInit /\ [][SubNext]_vars /\ SubFairness

\* a file that is only appended to, with stat failures on the open
\* descriptor
StatErrNext ==
  \/ \E a \in Atoms : Write(a)
  \/ Follow
  \/ FollowStatErr
  \/ FileClose

SpecStatErr == FileInit /\ [][StatErrNext]_vars

\* a file that is appended to and truncated in place, with failures in the
\* truncation detection
TruncErrNext ==
  \/ \E a \in Atoms : Write(a)
  \/ \E k \in 0..MaxLen : Truncate(k)
  \/ Follow
  \/ \E fail \in TruncFailures : FollowTruncErr(fail)
  \/ FileClose

SpecTruncErr == FileInit /\ [][TruncErrNext]_vars

\* Read and Close in two goroutines, on a file that is only appended to
GateNext ==
  \/ \E a \in Atoms : Write(a)
  \/ ReadChunk
  \/ ReadRune
  \/ waitForLock
  \/ WriteRune
  \/ \E p \in Procs :
       \/ sendLineLock(p)
       \/ sendLineString(p)
       \/ sendLineSend(p)
       \/ sendLineReset(p)
       \/ sendLineUnlock(p)
  \/ CloseCallFile
  \/ CloseFile

SpecGate == FileInit /\ [][GateNext]_vars

SpecAppend == FileInit /\ [][AppendNext]_vars
SpecTrunc == FileInit /\ [][TruncNext]_vars
SpecRot == FileInit /\ [][RotNext]_vars

(***************************************************************************)
(* Properties of the tailed file.                                          *)
(***************************************************************************)

\* the text the line records stand for: a record sent by the rune loop of
\* Read stands for its text and the newline that ended it, a record sent by
\* Close or by checkForTruncate for its text alone
RECURSIVE Flatten(_)
Flatten(ls) ==
  IF ls = <<>> THEN <<>>
  ELSE (IF Head(ls).by = "read" THEN Head(ls).text \o <<NewLine>> ELSE Head(ls).text)
       \o Flatten(Tail(ls))

CountBy(ls, by) == Cardinality({i \in 1..Len(ls) : ls[i].by = by})

NewLines(b) == Cardinality({i \in 1..Len(b) : b[i] = NewLine})

\* C1: a regular file tailed from its start and only appended to: once every
\* byte has been read and the File is closed, the line records joined with
\* newlines are the content of the file, and Close sent at most one record,
\* the final unterminated segment.
C1_RoundTrip ==
  (seekToStart /\ ~fopen /\ offset = Len(inodes[fdIno]))
    => /\ Flatten(lines) = inodes[fdIno]
       /\ CountBy(lines, "close") <= 1

\* C2 (as claimed): when the descriptor is swapped for the new inode, every
\* byte of the old inode, a trailing segment with no newline included, has
\* been sent as a line record: nothing of it is left in the partial buffer.
C2_OldFlushedAsLines ==
  atSwap.from # 0 => atSwap.partial = <<>>

\* C2 (amended): when the descriptor is swapped for the new inode, every byte
\* of the old inode from the open position on has been read from the old
\* descriptor, exactly once and in order, and one line record has been sent
\* per newline read; the trailing segment with no newline is in the partial
\* buffer, not sent.
C2_OldDrainedBeforeSwap ==
  atSwap.from # 0 =>
    LET old == inodes[atSwap.from]
        start == IF atSwap.from = 1 THEN openOff ELSE 0
    IN  /\ atSwap.off = Len(old)
        /\ atSwap.log = SubSeq(old, start + 1, Len(old))
        /\ atSwap.nlines = NewLines(atSwap.log)
        /\ (old # <<>> /\ old[Len(old)] # NewLine /\ start < Len(old))
             => atSwap.partial # <<>>

\* C2 witness: a rotation handled with an unterminated segment of the old
\* inode still buffered, and bytes of the new inode read after it
C2_Witness ==
  /\ atSwap.from = 1
  /\ atSwap.partial # <<>>
  /\ atSwap.log # <<>>
  /\ fdIno = 2
  /\ offset > 0

\* C3: a read pass that finds the file shorter than the read offset sends a
\* non-empty partial buffer as a line record of its own, seeks to zero,
\* counts the truncation, and reads the bytes now in the file once each from
\* offset zero.
C3_Truncation ==
  [][(lastOp' = "Follow" /\ offset > 0 /\ Len(inodes[fdIno]) < offset)
       => /\ logTruncs' = logTruncs + 1
          /\ IF partial # <<>>
             THEN /\ Len(lines') > Len(lines)
                  /\ SubSeq(lines', 1, Len(lines) + 1)
                       = Append(lines, [text |-> partial, by |-> "trunc"])
                  /\ CountBy(lines', "trunc") = CountBy(lines, "trunc") + 1
             ELSE CountBy(lines', "trunc") = CountBy(lines, "trunc")
          /\ readLog' = inodes[fdIno]
          /\ offset' = Len(inodes[fdIno])
          /\ NewLines(readLog') = CountBy(lines', "read") - CountBy(lines, "read")
    ]_vars

\* C3 witness: a truncation was detected with a partial line buffered, and
\* the shorter file was then read from offset zero
C3_Witness ==
  /\ logTruncs = 1
  /\ CountBy(lines, "trunc") = 1
  /\ readLog # <<>>
  /\ readLog = inodes[fdIno]

\* C4: a file opened at its end and only appended to: the line records sent
\* so far, each with its newline, followed by the partial buffer, are the
\* bytes read since the open; one record per newline read; and after Close
\* the records alone are those bytes.  Nothing from before the open is sent.
C4_Buffering ==
  ~seekToStart =>
    /\ Flatten(lines) \o partial = SubSeq(inodes[fdIno], openOff + 1, offset)
    /\ CountBy(lines, "read") = NewLines(SubSeq(inodes[fdIno], openOff + 1, offset))
    /\ CountBy(lines, "close") <= 1

(***************************************************************************)
(* Properties of the LogWatcher.                                           *)
(***************************************************************************)

\* C5: sendEvent sends an event on the channel registered for its path;
\* only if the path is not registered, on the channel registered for its
\* directory; and if neither is registered it drops the event and goes on to
\* the next one.  The send delivers that event on that channel.
C5_Dispatch ==
  [][/\ (pcE = "lookup" /\ pcE' # "lookup") =>
          /\ evE' = evE
          /\ IF Has(watched, evE.path)
             THEN pcE' = "send" /\ chE' = watched[evE.path]
             ELSE pcE' = "lookupDir"
     /\ (pcE = "lookupDir" /\ pcE' # "lookupDir") =>
          IF Has(watched, Dir(evE.path))
          THEN pcE' = "send" /\ chE' = watched[Dir(evE.path)] /\ evE' = evE
          ELSE pcE' = "range" /\ ~panicked'
     /\ (pcE = "send" /\ pcE' # "send") => pcE' = "range" /\ ~panicked'
     /\ (pcE = "send" /\ pcE' = "send") => chE' = chE /\ evE' = evE
    ]_vars

\* C5 witness: a Create event for an unregistered entry of a registered
\* directory is being sent on the directory's channel
C5_Witness ==
  /\ pcE = "send"
  /\ evE.kind = "Create"
  /\ evE.path = FileB
  /\ ~Has(watched, FileB)
  /\ Has(watched, DirD)
  /\ chE = watched[DirD]

ValidHandle(h) == h >= 0 /\ h < events

\* C6: an Add that has passed the bounds check and finds its path registered
\* already returns nil and leaves w.watched and the native watches as they
\* are: the path stays with the channel of the first Add.
C6_AddIdempotent ==
  [][\A c \in Callers :
       (pc[c] = "IsWatching" /\ pc'[c] # "IsWatching"
        /\ Has(watched, Abs(arg[c].path)))
         => /\ pc'[c] = "idle"
            /\ ret'[c] = "nil"
            /\ watched' = watched
            /\ fsWatches' = fsWatches
            /\ ~panicked'
    ]_vars

\* C6 witness: an Add of a registered path with a valid handle of another
\* channel, after an Add that returned nil
C6_Witness ==
  \E c \in Callers, d \in Callers :
    /\ pc[c] = "IsWatching"
    /\ ValidHandle(arg[c].handle)
    /\ Has(watched, Abs(arg[c].path))
    /\ watched[Abs(arg[c].path)] # arg[c].handle + 1
    /\ d # c /\ pc[d] = "idle" /\ ret[d] = "nil"

CloseBody == {"watcherClose", "eventsDone", "closeStop", "ticksDone", "eventsLock"}

\* C7: whatever the number of Close calls, the function of closeOnce runs
\* once: at most one caller is in it, no channel is closed twice, stopTicks
\* is closed at most once, and when Close has returned every channel handed
\* out before the closing loop has been closed exactly once.
C7_CloseOnce ==
  /\ Cardinality({c \in Callers : pc[c] \in CloseBody}) <= 1
  /\ \A q \in Queues : chClosed[q] <= 1
  /\ stopTicks <= 1
  /\ closeOnce = "done" =>
       /\ \E n \in 0..events : \A q \in Queues : chClosed[q] = (IF q <= n THEN 1 ELSE 0)
       /\ pollOn => stopTicks = 1
  /\ closeOnce # "done" => \A q \in Queues : chClosed[q] = 0
  /\ \A c \in Callers : pc[c] = "onceWait" => closeOnce # "fresh"

\* C7 witness: a second Close call waits in closeOnce.Do while the first is
\* about to close the channels, and one that came after the first finished
C7_Witness ==
  \E c \in Callers, d \in Callers :
    /\ pc[c] = "onceWait"
    /\ events >= 1
    /\ \/ pc[d] = "eventsLock"
       \/ closeOnce = "done" /\ chClosed[1] = 1

\* C8: no channel is closed before runEvents and runTicks have returned, so
\* no send is pending on a closed channel.
C8_NoSendAfterClose ==
  /\ (\E q \in Queues : chClosed[q] > 0) =>
       /\ watcherOn => pcE = "done" /\ eventsDone
       /\ pollOn => pcT = "done" /\ ticksDone
  /\ pcE = "send" => chClosed[chE] = 0
  /\ pcT = "send" => chClosed[watched[curT]] = 0

\* C8 witness: the channels were closed with paths registered and both
\* background tasks running until then
C8_Witness ==
  /\ watcherOn /\ pollOn
  /\ chClosed[1] = 1
  /\ DOMAIN watched # {}
  /\ pcE = "done" /\ pcT = "done"

\* C9: once Close has been called, with every consumer receiving, Close
\* returns and every channel handed out by then is closed (unless the
\* process panicked).
C9_CloseReturns ==
  /\ \A c \in Callers :
       (pc[c] \in CloseBody \cup {"onceWait"}) ~> (pc[c] = "idle" \/ panicked)
  /\ \A q \in Queues :
       (closeOnce = "running" /\ q <= events) ~> (chClosed[q] >= 1 \/ panicked)

\* C10: in a watcher with no native backend, an Add with a handle that
\* Events() returned does not panic in w.watcher.Add: it goes on to register
\* the path.
C10_PollOnlyAdd ==
  ~watcherOn =>
    \A c \in Callers :
      (pc[c] = "watcherAdd" /\ ValidHandle(arg[c].handle)) => ~panicked

\* C11: runEvents holds one native event at a time, in the order in which
\* w.watcher.Events yields them: the next event is taken only when the last
\* one has been received by a consumer or dropped, and the event in hand is
\* not replaced or changed on its way, whatever the poll driver, Add and
\* Remove do meanwhile.  So no event overtakes an earlier one.
C11_InOrder ==
  [][/\ (evE' # evE /\ evE' # NoEvent) =>
          pcE = "range" /\ evE = NoEvent /\ pcE' = "lookup"
     /\ (evE # NoEvent /\ evE' # evE) =>
          /\ evE' = NoEvent
          /\ pcE' = "range"
          /\ pcE = "send" \/ (pcE = "lookupDir" /\ ~Has(watched, Dir(evE.path)))
     /\ (pcE = "send" /\ pcE' # "send") => chClosed[chE] = 0
    ]_vars

\* C11 witness: a native event for a registered path is being sent on the
\* path's channel while the poll driver is in the middle of a send too
C11_Witness ==
  /\ pcE = "send"
  /\ evE.path = FileA
  /\ Has(watched, FileA)
  /\ chE = watched[FileA]
  /\ pcT = "send"

\* C12: no task in a send on a subscriber channel holds watchedMu or
\* eventsMu.  runTicks is the only task that keeps a read lock of watchedMu
\* from one step to the next, so it holds one exactly when the reader count
\* is positive; sendEvent releases its read lock before it sends.
C12_NoLockAcrossSend ==
  /\ pcT = "send" => watchedMu.r = 0
  /\ pcE = "send" => (watchedMu.r > 0 => pcT = "send")

InFlush(p) == pcG[p] \in {"send", "Reset"}

\* C13: a flush and the rune loop never interleave: no rune is appended to
\* f.partial while a sendLine of the other goroutine is between taking the
\* content of the buffer and clearing it; and whenever no sendLine is under
\* way, the line records sent (each record of Read with its newline)
\* followed by the buffer are the bytes the rune loop has handled: nothing
\* lost, nothing twice.
C13_FlushAtomic ==
  /\ [][(pcG["read"] = "WriteRune" /\ pcG'["read"] # "WriteRune")
          => ~InFlush("close")]_vars
  /\ []((\A p \in Procs : pcG[p] \notin {"sendLine", "String", "send", "Reset", "unlock"})
          => Flatten(lines) \o partial = fed)

\* C16: a Follow whose stat of the open descriptor fails, with a file at the
\* path, handles one rotation: logRotations goes up by one, and the bytes of
\* the file it opened are emitted at most once, so it sends at most one line
\* record per newline of that file.
C16_StatFailure ==
  [][(lastOp' = "FollowStatErr" /\ pathIno # 0 /\ logRotations' # logRotations)
       => /\ logRotations' = logRotations + 1
          /\ CountBy(lines', "read") - CountBy(lines, "read")
               <= NewLines(inodes[pathIno])
    ]_vars

\* C17: a Follow in which the truncation detection fails leaves the File as
\* if no truncation had happened: no truncation is counted, nothing is sent,
\* the offset stays, and the read pass ends with the zero bytes it read.
C17_TruncCheckFailure ==
  [][lastOp' \in TruncFailures
       => /\ logTruncs' = logTruncs
          /\ offset' = offset
          /\ lines' = lines
          /\ partial' = partial
          /\ readLog' = readLog
    ]_vars

AddPcs == {"IsWatching", "watcherAdd", "Lock", "write"}

\* C14 (as claimed): every Add with a valid handle that returns, with nil or
\* with an error, leaves its path registered.
C14_AlwaysRecorded ==
  [][\A c \in Callers :
       (pc[c] \in AddPcs /\ pc'[c] = "idle" /\ ValidHandle(arg[c].handle))
         => Has(watched', Abs(arg[c].path))
    ]_vars

\* C14 (amended): an Add with a valid handle whose native watch was
\* installed, skipped for /dev or refused with permission denied goes on to
\* record its path with the channel of its handle and returns nil; an Add
\* whose installation failed with another error returns the error and
\* leaves w.watched as it is.
C14_RecordedUnlessError ==
  [][\A c \in Callers :
       /\ (pc[c] = "watcherAdd" /\ pc'[c] # "watcherAdd")
            => /\ watched' = watched
               /\ \/ pc'[c] = "Lock" /\ ret'[c] = ret[c]
                  \/ pc'[c] = "idle" /\ ret'[c] = "err"
               /\ Abs(arg[c].path) = DevPath => pc'[c] = "Lock"
       /\ (pc[c] = "Lock" /\ pc'[c] # "Lock") => pc'[c] = "write"
       /\ (pc[c] = "write" /\ pc'[c] # "write" /\ ValidHandle(arg[c].handle))
            => /\ Has(watched', Abs(arg[c].path))
               /\ watched'[Abs(arg[c].path)] = arg[c].handle + 1
               /\ ret'[c] = "nil"
               /\ pc'[c] = "idle"
    ]_vars

\* C14 witness: /dev is registered with no native watch on it, and so is a
\* path whose native watch was refused
C14_Witness ==
  /\ watcherOn
  /\ Has(watched, DevPath)
  /\ Has(watched, FileA)
  /\ fsWatches = {}
  /\ \A c \in Callers : pc[c] = "idle" /\ ret[c] = "nil"

\* C15: when Remove(p) has deleted from w.watched, p is not registered any
\* more: IsWatching(p) is false.
C15_RemoveDeletes ==
  [][\A c \in Callers :
       (pc[c] = "Remove" /\ pc'[c] # "Remove")
         => ~Has(watched', Abs(arg[c].path))
    ]_vars

\* C18: no Add gets past the bounds check with a handle that Events() has
\* not returned, none panics, and no read lock of eventsMu is left held.
C18_BadHandleRejected ==
  /\ eventsMu.r = 0
  /\ \A c \in Callers : pc[c] \in AddPcs => ValidHandle(arg[c].handle)
  /\ watcherOn => ~panicked

\* C20: while a path stays registered, its channel does not change.
C20_FirstRegistrationKept ==
  [][\A k \in DOMAIN watched :
       k \in DOMAIN watched' => watched'[k] = watched[k]
    ]_vars

\* C19: a subscriber's Add or Remove call always returns (unless the
\* process panicked), and a send to a subscriber is always received.
C19_NoDeadlock ==
  /\ \A c \in Callers :
       (pc[c] \in AddPcs \cup {"Remove", "watcherRemove"})
         ~> (pc[c] = "idle" \/ panicked)
  /\ (pcT = "send") ~> (pcT # "send" \/ panicked)
  /\ (pcE = "send") ~> (pcE # "send" \/ panicked)

=============================================================================
